---- MODULE Spec2Model ----
(***************************************************************************)
(* A model of zodix: the query/form normalizers, the schema guards, the    *)
(* compat dispatcher, the error constructor and the six parse operations   *)
(* of the compat module (parsers.ts) and of the per-generation modules     *)
(* (parsers.v3.ts, parsers.v4.ts).                                         *)
(***************************************************************************)
EXTENDS Integers, Sequences, FiniteSets

VARIABLES
    mod,          \* the module whose entry point is called: compat, v3 or v4
    op,           \* the operation called
    src,          \* the source argument (params, URLSearchParams, FormData or Request)
    schema,       \* the schema argument
    opts,         \* the options argument
    pc,           \* the position of the call
    formData,     \* the materialized form entries of a form call
    data,         \* the normalized record handed to the validator
    finalSchema,  \* the resolved validator
    calls,        \* the engine entry points invoked by the call, in order
    result,       \* how the call ended
    prev          \* the outcome of the previous call that is kept, if any

vars == << mod, op, src, schema, opts, pc, formData, data, finalSchema,
           calls, result, prev >>

(***************************************************************************)
(* JavaScript values.  Every value is a record [t, s, l]: t is the kind,   *)
(* s the string content (a string's text, a File's name), l the elements   *)
(* of an array.                                                            *)
(***************************************************************************)
Str(s) == [t |-> "str", s |-> s, l |-> <<>>]
FileV(n) == [t |-> "file", s |-> n, l |-> <<>>]
FnV == [t |-> "fn", s |-> "toString", l |-> <<>>]
Undef == [t |-> "undef", s |-> "", l |-> <<>>]
Arr(l) == [t |-> "list", s |-> "", l |-> l]

\* The empty object literal {}: no own keys.
EmptyObject == [k \in {} |-> Undef]

\* Names every object literal inherits from Object.prototype.
PrototypeKeys == {"toString"}

\* values[key]: the own property, else the inherited one, else undefined.
Get(obj, key) ==
    IF key \in DOMAIN obj THEN obj[key]
    ELSE IF key \in PrototypeKeys THEN FnV
    ELSE Undef

\* key in obj
HasIn(obj, key) == key \in DOMAIN obj \/ key \in PrototypeKeys

\* obj[key] = v
Put(obj, key, v) ==
    [k \in (DOMAIN obj) \cup {key} |-> IF k = key THEN v ELSE obj[k]]

\* ToBoolean: undefined and the empty string are falsy; arrays, Files and
\* functions are truthy.
Truthy(v) == ~(v.t = "undef" \/ (v.t = "str" /\ v.s = ""))

IsArray(v) == v.t = "list"

IsFile(v) == v.t = "file"

RECURSIVE Join(_)
Join(l) ==
    IF l = <<>> THEN ""
    ELSE IF Len(l) = 1 THEN Head(l).s
    ELSE Head(l).s \o "," \o Join(Tail(l))

\* value.toString()
toString(v) ==
    CASE v.t = "str" -> v.s
      [] v.t = "file" -> "[object File]"
      [] v.t = "fn" -> "function toString() { [native code] }"
      [] v.t = "list" -> Join(v.l)
      [] OTHER -> "undefined"

(***************************************************************************)
(* The normalizers.  A source is a sequence of entries [k, v].             *)
(***************************************************************************)

\* One turn of the loop of parseSearchParamsDefault.
SearchParamsDefaultStep(values, key, value) ==
    LET currentVal == Get(values, key) IN
    IF Truthy(currentVal) /\ IsArray(currentVal)
    THEN Put(values, key, Arr(Append(currentVal.l, value)))
    ELSE IF Truthy(currentVal)
    THEN Put(values, key, Arr(<<currentVal, value>>))
    ELSE Put(values, key, value)

RECURSIVE SearchParamsDefaultLoop(_, _)
SearchParamsDefaultLoop(values, entries) ==
    IF entries = <<>> THEN values
    ELSE SearchParamsDefaultLoop(
             SearchParamsDefaultStep(values, Head(entries).k, Head(entries).v),
             Tail(entries))

\* parsers.ts: the default parser for URLSearchParams.
parseSearchParamsDefault(searchParams) ==
    SearchParamsDefaultLoop(EmptyObject, searchParams)

\* One turn of the loop of parseFormDataDefault.
FormDataDefaultStep(values, key, value) ==
    LET currentVal == Get(values, key) IN
    IF Truthy(currentVal) /\ IsArray(currentVal)
    THEN Put(values, key, Arr(Append(currentVal.l, Str(toString(value)))))
    ELSE IF IsFile(value)
    THEN Put(values, key, Str(value.s))
    ELSE IF Truthy(currentVal)
    THEN Put(values, key, Arr(<<Str(toString(currentVal)), value>>))
    ELSE Put(values, key, value)

RECURSIVE FormDataDefaultLoop(_, _)
FormDataDefaultLoop(values, entries) ==
    IF entries = <<>> THEN values
    ELSE FormDataDefaultLoop(
             FormDataDefaultStep(values, Head(entries).k, Head(entries).v),
             Tail(entries))

\* parsers.ts: the default parser for FormData.
parseFormDataDefault(formEntries) ==
    FormDataDefaultLoop(EmptyObject, formEntries)

\* One turn of the loop of defaultSearchParamsParser (v3 and v4 modules).
DefaultSearchParamsStep(params, key, value) ==
    IF ~HasIn(params, key)
    THEN Put(params, key, value)
    ELSE IF IsArray(Get(params, key))
    THEN Put(params, key, Arr(Append(Get(params, key).l, value)))
    ELSE Put(params, key, Arr(<<Get(params, key), value>>))

RECURSIVE DefaultSearchParamsLoop(_, _)
DefaultSearchParamsLoop(params, entries) ==
    IF entries = <<>> THEN params
    ELSE DefaultSearchParamsLoop(
             DefaultSearchParamsStep(params, Head(entries).k, Head(entries).v),
             Tail(entries))

\* parsers.v3.ts: defaultSearchParamsParser.
defaultSearchParamsParserV3(searchParams) ==
    DefaultSearchParamsLoop(EmptyObject, searchParams)

\* parsers.v4.ts: defaultSearchParamsParser.
defaultSearchParamsParserV4(searchParams) ==
    DefaultSearchParamsLoop(EmptyObject, searchParams)

\* formData.getAll(key): every value of the key, in order.
RECURSIVE GetAll(_, _)
GetAll(entries, key) ==
    IF entries = <<>> THEN <<>>
    ELSE IF Head(entries).k = key
    THEN <<Head(entries).v>> \o GetAll(Tail(entries), key)
    ELSE GetAll(Tail(entries), key)

\* The loop of parseFormData of the v3 and v4 modules: keys() yields the key
\* of every entry, repeated keys repeated.
RECURSIVE FormDataKeysLoop(_, _, _)
FormDataKeysLoop(params, keys, entries) ==
    IF keys = <<>> THEN params
    ELSE LET key == Head(keys).k
             values == GetAll(entries, key)
         IN FormDataKeysLoop(
                Put(params, key,
                    IF Len(values) > 1 THEN Arr(values) ELSE values[1]),
                Tail(keys), entries)

\* parsers.v3.ts: parseFormData.
parseFormDataV3(formEntries) ==
    FormDataKeysLoop(EmptyObject, formEntries, formEntries)

\* parsers.v4.ts: parseFormData.
parseFormDataV4(formEntries) ==
    FormDataKeysLoop(EmptyObject, formEntries, formEntries)

\* The default query normalizer of a module.
DefaultQueryParser(m, entries) ==
    CASE m = "compat" -> parseSearchParamsDefault(entries)
      [] m = "v3" -> defaultSearchParamsParserV3(entries)
      [] OTHER -> defaultSearchParamsParserV4(entries)

\* The default form normalizer of a module.
DefaultFormParser(m, entries) ==
    CASE m = "compat" -> parseFormDataDefault(entries)
      [] m = "v3" -> parseFormDataV3(entries)
      [] OTHER -> parseFormDataV4(entries)

(***************************************************************************)
(* Schema arguments.  A schema argument is a record                        *)
(*   ty   : what typeof says, with "null" for null                         *)
(*   zod  : the value carries the Modern marker _zod                       *)
(*   def  : the value carries the Legacy marker _def (Modern classic       *)
(*          validators carry it too)                                       *)
(*   req  : the fields an object validator (or a shape) requires, each a   *)
(*          string validator                                               *)
(*   leaf : the generation that built the validator or the shape's fields  *)
(*   async: the validator's field refinements are asynchronous             *)
(* Every validator is taken to expose the parse methods of its generation. *)
(***************************************************************************)
Validator(zod, def, req, leaf) ==
    [ty |-> "object", zod |-> zod, def |-> def, req |-> req, leaf |-> leaf,
     async |-> FALSE]

\* A validator whose required fields carry an asynchronous refinement (one
\* that accepts every string).
AsyncValidator(zod, def, req, leaf) ==
    [ty |-> "object", zod |-> zod, def |-> def, req |-> req, leaf |-> leaf,
     async |-> TRUE]

Shape(req, leaf) ==
    [ty |-> "object", zod |-> FALSE, def |-> FALSE, req |-> req, leaf |-> leaf,
     async |-> FALSE]

NullSchema ==
    [ty |-> "null", zod |-> FALSE, def |-> FALSE, req |-> {}, leaf |-> "none",
     async |-> FALSE]

\* A number passed where a schema is expected: it has no own keys.
NumberSchema ==
    [ty |-> "number", zod |-> FALSE, def |-> FALSE, req |-> {}, leaf |-> "none",
     async |-> FALSE]

\* A function object on which both markers were set.
MarkedFunction ==
    [ty |-> "function", zod |-> TRUE, def |-> TRUE, req |-> {}, leaf |-> "none",
     async |-> FALSE]

\* typeof value
TypeOf(v) == IF v.ty = "null" THEN "object" ELSE v.ty

\* value != null
NotNullish(v) == v.ty \notin {"null", "undefined"}

\* types/guards: isZodV4Schema.
isZodV4Schema(s) == NotNullish(s) /\ TypeOf(s) = "object" /\ s.zod

\* The Legacy guard without its test for the absence of the Modern marker.
isZodV3Schema_NoZodTest(s) == NotNullish(s) /\ TypeOf(s) = "object" /\ s.def

\* types/guards: isZodV3Schema.
isZodV3Schema(s) == NotNullish(s) /\ TypeOf(s) = "object" /\ s.def /\ ~s.zod

\* types/guards: isZodSchema.
isZodSchema(s) == isZodV3Schema(s) \/ isZodV4Schema(s)

\* parsers.v3.ts: its own isZodV3Schema.
isZodV3Schema_v3(value) ==
    TypeOf(value) = "object" /\ value.ty # "null" /\ value.def /\ ~value.zod

\* parsers.v4.ts: its own isZodV4Schema.
isZodV4Schema_v4(value) ==
    TypeOf(value) = "object" /\ value.ty # "null" /\ value.zod

(***************************************************************************)
(* Resolved validators: the schema argument as it is, or an object         *)
(* validator built around it by z3.object or (v4 module) z.object.         *)
(***************************************************************************)
AsIs(s) == [wrapped |-> FALSE, by |-> "none", base |-> s]

NoSchema == AsIs(NullSchema)

\* z3.object(shape)
z3Object(shape) == [wrapped |-> TRUE, by |-> "v3", base |-> shape]

\* z.object(shape) of zod/v4
z4Object(shape) == [wrapped |-> TRUE, by |-> "v4", base |-> shape]

\* createObjectSchema built on the Modern engine's object constructor.
createObjectSchema_Modern(shape) == z4Object(shape)

\* compat/object: createObjectSchema.
createObjectSchema(shape) == z3Object(shape)

\* The markers of a resolved validator, as the guards see them.
Markers(fs) ==
    IF fs.wrapped
    THEN Validator(fs.by = "v4", TRUE, fs.base.req, fs.by)
    ELSE fs.base

IsPlainShape(s) == s.ty = "object" /\ ~s.zod /\ ~s.def

IsPrebuilt(s) == s.ty = "object" /\ (s.zod \/ s.def)

GenerationOf(s) == IF s.zod THEN "v4" ELSE "v3"

(***************************************************************************)
(* The validation engines, by their contract.  An object validator fails   *)
(* with one issue per required field that is missing or not a string, and  *)
(* otherwise returns the required fields (unknown keys are stripped).      *)
(* A run ends "ok", "issues" (the engine's validation error) or "fault"    *)
(* (another exception: the value handed over is not what the engine        *)
(* expects).                                                               *)
(***************************************************************************)
ObjectCheck(req, d) ==
    LET issues == {f \in req : Get(d, f).t # "str"} IN
    IF issues = {}
    THEN [out |-> "ok", value |-> [f \in req |-> d[f]], issues |-> {}]
    ELSE [out |-> "issues", value |-> EmptyObject, issues |-> issues]

Fault == [out |-> "fault", value |-> EmptyObject, issues |-> {}]

\* The object constructors take the keys of what they are given: z3.object
\* reads Object.keys(shape) when it parses, z.object of zod/v4 spreads
\* {...shape}.  A number has no keys under both; null has none under the
\* spread and makes Object.keys throw.
HasNoKeys(by, s) == s.ty = "number" \/ (by = "v4" /\ s.ty = "null")

\* What parsing d with the resolved validator fs does.
Validate(fs, d) ==
    IF fs.wrapped
    THEN IF HasNoKeys(fs.by, fs.base)
         THEN ObjectCheck({}, d)
         ELSE IF IsPlainShape(fs.base) /\ fs.base.leaf = fs.by
         THEN ObjectCheck(fs.base.req, d)
         ELSE Fault
    ELSE IF IsPrebuilt(fs.base)
         THEN ObjectCheck(fs.base.req, d)
         ELSE Fault

\* One engine call: entry is the entry point, engine the generation whose
\* code is entered, style "generic" for z4.entry(schema, data) and "method"
\* for schema.entry(data).
EngineCall(entry, engine, style, fs, d) ==
    [entry |-> entry, engine |-> engine, style |-> style, schema |-> fs,
     data |-> d]

SyncEntries == {"parse", "safeParse"}

\* A synchronous entry point throws when it comes upon an asynchronous
\* refinement, which is when a refined field holds a string; an
\* asynchronous entry point awaits the refinement.
EngineRun(entry, fs, d) ==
    IF /\ entry \in SyncEntries
       /\ ~fs.wrapped /\ IsPrebuilt(fs.base) /\ fs.base.async
       /\ \E f \in fs.base.req : Get(d, f).t = "str"
    THEN Fault
    ELSE Validate(fs, d)

\* z4.parse(schema, data) and its variants: the Modern engine's generic
\* entry points read schema._zod.
z4Generic(entry, fs, d) ==
    IF Markers(fs).zod THEN EngineRun(entry, fs, d) ELSE Fault

\* schema.parse(data) and its variants: the validator's own method.
OwnMethod(entry, fs, d) == EngineRun(entry, fs, d)

\* The dispatcher with its two branches swapped.
DispatchCompat_Swapped(entry, fs, d) ==
    IF ~isZodV4Schema(Markers(fs))
    THEN [run |-> z4Generic(entry, fs, d),
          call |-> EngineCall(entry, "v4", "generic", fs, d)]
    ELSE [run |-> OwnMethod(entry, fs, d),
          call |-> EngineCall(entry, "v3", "method", fs, d)]

\* compat/parser: the branch shared by parseCompat, safeParseCompat and
\* parseAsyncCompat.
DispatchCompat(entry, fs, d) ==
    IF isZodV4Schema(Markers(fs))
    THEN [run |-> z4Generic(entry, fs, d),
          call |-> EngineCall(entry, "v4", "generic", fs, d)]
    ELSE [run |-> OwnMethod(entry, fs, d),
          call |-> EngineCall(entry, "v3", "method", fs, d)]

\* compat/parser: parseCompat.
parseCompat(fs, d) == DispatchCompat("parse", fs, d)

\* compat/parser: safeParseCompat.
safeParseCompat(fs, d) == DispatchCompat("safeParse", fs, d)

\* compat/parser: parseAsyncCompat.
parseAsyncCompat(fs, d) == DispatchCompat("parseAsync", fs, d)

\* finalSchema.parse(params) and its variants in the v3 and v4 modules.
MethodCall(entry, fs, d) ==
    [run |-> OwnMethod(entry, fs, d),
     call |-> EngineCall(entry, GenerationOf(Markers(fs)), "method", fs, d)]

(***************************************************************************)
(* Options and the error constructor.  An optional field is [some, v].     *)
(***************************************************************************)
Some(v) == [some |-> TRUE, v |-> v]
NoString == [some |-> FALSE, v |-> ""]
NoNumber == [some |-> FALSE, v |-> 0]

DEFAULT_ERROR_MESSAGE == "Bad Request"
DEFAULT_ERROR_STATUS == 400

\* Statuses a Response with a body cannot have.
NullBodyStatuses == {204, 205, 304}

NoError == [status |-> 0, statusText |-> "", body |-> ""]

\* new Response(body, {status, statusText}) with a string body.
Response(body, status, statusText) ==
    IF status < 200 \/ status > 599
    THEN [threw |-> "RangeError", response |-> NoError]
    ELSE IF status \in NullBodyStatuses
    THEN [threw |-> "TypeError", response |-> NoError]
    ELSE [threw |-> "",
          response |-> [status |-> status, statusText |-> statusText,
                        body |-> body]]

\* errors: createErrorResponse.
createErrorResponse(options) ==
    LET statusText == IF options.message.some /\ options.message.v # ""
                      THEN options.message.v
                      ELSE DEFAULT_ERROR_MESSAGE
        status == IF options.status.some /\ options.status.v # 0
                  THEN options.status.v
                  ELSE DEFAULT_ERROR_STATUS
    IN Response(statusText, status, statusText)

(***************************************************************************)
(* How a call ends.  kind is "return" or "throw" (a rejection, for the     *)
(* form operations); what names the value returned or thrown; cause is     *)
(* what went wrong, if anything.                                           *)
(***************************************************************************)
NoResult ==
    [kind |-> "none", what |-> "none", cause |-> "none",
     value |-> EmptyObject, issues |-> {}, err |-> NoError]

\* return parsed
Returned(value) ==
    [kind |-> "return", what |-> "data", cause |-> "none",
     value |-> value, issues |-> {}, err |-> NoError]

\* return { success: true, data }
SafeSuccess(value) ==
    [kind |-> "return", what |-> "success", cause |-> "none",
     value |-> value, issues |-> {}, err |-> NoError]

\* A failure result whose error has lost its issues.
SafeFailure_NoIssues(issues, cause) ==
    [kind |-> "return", what |-> "failure", cause |-> cause,
     value |-> EmptyObject, issues |-> {}, err |-> NoError]

\* return { success: false, error }
SafeFailure(issues, cause) ==
    [kind |-> "return", what |-> "failure", cause |-> cause,
     value |-> EmptyObject, issues |-> issues, err |-> NoError]

\* an exception that leaves the call as it is
Escapes(what, cause) ==
    [kind |-> "throw", what |-> what, cause |-> cause,
     value |-> EmptyObject, issues |-> {}, err |-> NoError]

\* A catch block that copies the cause into the status text.
ThrowErrorResponse_Leaky(options, cause) ==
    LET e == createErrorResponse(options) IN
    IF e.threw = ""
    THEN [kind |-> "throw", what |-> "StandardError", cause |-> cause,
          value |-> EmptyObject, issues |-> {},
          err |-> [e.response EXCEPT !.statusText = cause]]
    ELSE Escapes(e.threw, cause)

\* catch (_error) { throw createErrorResponse(options) }
ThrowErrorResponse(options, cause) ==
    LET e == createErrorResponse(options) IN
    IF e.threw = ""
    THEN [kind |-> "throw", what |-> "StandardError", cause |-> cause,
          value |-> EmptyObject, issues |-> {}, err |-> e.response]
    ELSE Escapes(e.threw, cause)

CauseOf(run) == IF run.out = "issues" THEN "validation" ELSE "fault"

\* The exception a cause raises before any catch block sees it.
ExceptionOf(cause) ==
    CASE cause = "parser" -> "ParserError"
      [] cause = "validation" -> "ZodError"
      [] OTHER -> "TypeError"

\* What a call did: its result, the engine calls it made, the record it
\* handed to the validator and the validator it resolved.
Run(res, cs, d, fs) ==
    [result |-> res, calls |-> cs, data |-> d, finalSchema |-> fs]

\* The end of a throwing operation after the engine ran.
ThrowingEnd(r, options, d, fs) ==
    Run(IF r.run.out = "ok" THEN Returned(r.run.value)
        ELSE ThrowErrorResponse(options, CauseOf(r.run)),
        <<r.call>>, d, fs)

\* A safe operation that reports a validation failure as a success.
SafeEnd_IssuesAsSuccess(r, d, fs) ==
    Run(CASE r.run.out = "ok" -> SafeSuccess(r.run.value)
          [] r.run.out = "issues" -> SafeSuccess(d)
          [] OTHER -> Escapes("TypeError", "fault"),
        <<r.call>>, d, fs)

\* A safe operation that hands back its input in place of the parsed value.
SafeEnd_Unparsed(r, d, fs) ==
    Run(CASE r.run.out = "ok" -> SafeSuccess(d)
          [] r.run.out = "issues" -> SafeFailure(r.run.issues, "validation")
          [] OTHER -> Escapes("TypeError", "fault"),
        <<r.call>>, d, fs)

\* The end of a safe operation that returns the engine's safe result.
SafeEnd(r, d, fs) ==
    Run(CASE r.run.out = "ok" -> SafeSuccess(r.run.value)
          [] r.run.out = "issues" -> SafeFailure(r.run.issues, "validation")
          [] OTHER -> Escapes("TypeError", "fault"),
        <<r.call>>, d, fs)

(***************************************************************************)
(* Sources.  A source is [kind, entries, urlOk, body]: entries are the     *)
(* entries the operation reads (the params, the search params of the      *)
(* object or of a Request's URL, the form of the object or of a Request's  *)
(* body); urlOk says whether new URL(request.url) succeeds; body is        *)
(* "form" (unread, a readable form), "used" (already read) or "bad"        *)
(* (absent or not a form).                                                 *)
(***************************************************************************)
Source(kind, entries, urlOk, body) ==
    [kind |-> kind, entries |-> entries, urlOk |-> urlOk, body |-> body]

\* Object.fromEntries(entries): the last value of a key wins.
RECURSIVE FromEntries(_, _)
FromEntries(obj, entries) ==
    IF entries = <<>> THEN obj
    ELSE FromEntries(Put(obj, Head(entries).k, Head(entries).v), Tail(entries))

\* The params object of a Params source.
ParamsObject(s) == FromEntries(EmptyObject, s.entries)

\* A custom parser: "fromEntries" is Object.fromEntries, "throws" throws.
CustomParser(parser, entries) ==
    [threw |-> parser = "throws",
     rec |-> IF parser = "fromEntries" THEN FromEntries(EmptyObject, entries)
             ELSE EmptyObject]

\* parseSearchParams that runs the default parser whatever was supplied.
parseSearchParams_DefaultOnly(searchParams, customParser) ==
    [threw |-> FALSE, rec |-> parseSearchParamsDefault(searchParams)]

\* parsers.ts: parseSearchParams.
parseSearchParams(searchParams, customParser) ==
    IF customParser # "none" THEN CustomParser(customParser, searchParams)
    ELSE [threw |-> FALSE, rec |-> parseSearchParamsDefault(searchParams)]

\* parsers.v3.ts: parseSearchParams.
parseSearchParams_v3(searchParams, parser) ==
    IF parser # "none" THEN CustomParser(parser, searchParams)
    ELSE [threw |-> FALSE, rec |-> defaultSearchParamsParserV3(searchParams)]

\* parsers.v4.ts: parseSearchParams.
parseSearchParams_v4(searchParams, parser) ==
    IF parser # "none" THEN CustomParser(parser, searchParams)
    ELSE [threw |-> FALSE, rec |-> defaultSearchParamsParserV4(searchParams)]

\* parsers.ts: parseFormData.
parseFormData(formEntries, customParser) ==
    IF customParser # "none" THEN CustomParser(customParser, formEntries)
    ELSE [threw |-> FALSE, rec |-> parseFormDataDefault(formEntries)]

\* options?.parser ? options.parser(formData) : parseFormData(formData)
FormParams_v3(formEntries, options) ==
    IF options.parser # "none" THEN CustomParser(options.parser, formEntries)
    ELSE [threw |-> FALSE, rec |-> parseFormDataV3(formEntries)]

FormParams_v4(formEntries, options) ==
    IF options.parser # "none" THEN CustomParser(options.parser, formEntries)
    ELSE [threw |-> FALSE, rec |-> parseFormDataV4(formEntries)]

isURLSearchParams(request) == request.kind = "URLSearchParams"

isFormData(request) == request.kind = "FormData"

\* The search parameters of a request taken without its query string.
getSearchParamsFromRequest_NoQuery(request) ==
    [threw |-> ~request.urlOk, entries |-> <<>>]

\* new URL(request.url).searchParams
getSearchParamsFromRequest(request) ==
    [threw |-> ~request.urlOk, entries |-> request.entries]

\* isURLSearchParams(request) ? request : getSearchParamsFromRequest(request)
SearchParamsOf(request) ==
    IF isURLSearchParams(request)
    THEN [threw |-> FALSE, entries |-> request.entries]
    ELSE getSearchParamsFromRequest(request)

(***************************************************************************)
(* Resolving the schema argument.                                          *)
(***************************************************************************)

\* The compat resolution that takes every schema argument as it is.
ResolveCompat_NeverWrap(sch) == AsIs(sch)

\* The compat resolution with the guard of the Legacy generation alone.
ResolveCompat_LegacyOnly(sch) ==
    IF isZodV3Schema(sch) THEN AsIs(sch) ELSE createObjectSchema(sch)

\* parsers.ts: isZodSchema(schema) ? schema : createObjectSchema(schema)
ResolveCompat(sch) ==
    IF isZodSchema(sch) THEN AsIs(sch) ELSE createObjectSchema(sch)

\* parsers.v3.ts: isZodV3Schema(schema) ? schema : z3.object(schema)
ResolveV3(sch) ==
    IF isZodV3Schema_v3(sch) THEN AsIs(sch) ELSE z3Object(sch)

\* parsers.v4.ts: isZodV4Schema(schema) ? schema : z.object(schema)
ResolveV4(sch) ==
    IF isZodV4Schema_v4(sch) THEN AsIs(sch) ELSE z4Object(sch)

\* A call that failed before the validator was resolved.
EarlyEnd(res) == Run(res, <<>>, EmptyObject, NoSchema)

(***************************************************************************)
(* The compat module (parsers.ts): the synchronous operations.             *)
(***************************************************************************)
parseParams(params, sch, options) ==
    LET fs == ResolveCompat(sch) IN
    ThrowingEnd(parseCompat(fs, params), options, params, fs)

\* parseParamsSafe that validates an empty record in place of the params.
parseParamsSafe_DropsParams(params, sch) ==
    LET fs == ResolveCompat(sch) IN
    SafeEnd(safeParseCompat(fs, EmptyObject), EmptyObject, fs)

parseParamsSafe(params, sch) ==
    LET fs == ResolveCompat(sch) IN
    SafeEnd(safeParseCompat(fs, params), params, fs)

parseQuery(request, sch, options) ==
    LET sp == SearchParamsOf(request) IN
    IF sp.threw THEN EarlyEnd(ThrowErrorResponse(options, "url"))
    ELSE LET np == parseSearchParams(sp.entries, options.parser) IN
         IF np.threw THEN EarlyEnd(ThrowErrorResponse(options, "parser"))
         ELSE LET fs == ResolveCompat(sch) IN
              ThrowingEnd(parseCompat(fs, np.rec), options, np.rec, fs)

parseQuerySafe(request, sch, options) ==
    LET sp == SearchParamsOf(request) IN
    IF sp.threw THEN EarlyEnd(Escapes(ExceptionOf("url"), "url"))
    ELSE LET np == parseSearchParams(sp.entries, options.parser) IN
         IF np.threw THEN EarlyEnd(Escapes(ExceptionOf("parser"), "parser"))
         ELSE LET fs == ResolveCompat(sch) IN
              SafeEnd(safeParseCompat(fs, np.rec), np.rec, fs)

(***************************************************************************)
(* The v3 module (parsers.v3.ts): the synchronous operations.              *)
(***************************************************************************)
parseParams_v3(params, sch, options) ==
    LET fs == ResolveV3(sch) IN
    ThrowingEnd(MethodCall("parse", fs, params), options, params, fs)

parseParamsSafe_v3(params, sch) ==
    LET fs == ResolveV3(sch) IN
    SafeEnd(MethodCall("safeParse", fs, params), params, fs)

parseQuery_v3(request, sch, options) ==
    LET sp == SearchParamsOf(request) IN
    IF sp.threw THEN EarlyEnd(ThrowErrorResponse(options, "url"))
    ELSE LET np == parseSearchParams_v3(sp.entries, options.parser) IN
         IF np.threw THEN EarlyEnd(ThrowErrorResponse(options, "parser"))
         ELSE LET fs == ResolveV3(sch) IN
              ThrowingEnd(MethodCall("parse", fs, np.rec), options, np.rec, fs)

parseQuerySafe_v3(request, sch, options) ==
    LET sp == SearchParamsOf(request) IN
    IF sp.threw THEN EarlyEnd(Escapes(ExceptionOf("url"), "url"))
    ELSE LET np == parseSearchParams_v3(sp.entries, options.parser) IN
         IF np.threw THEN EarlyEnd(Escapes(ExceptionOf("parser"), "parser"))
         ELSE LET fs == ResolveV3(sch) IN
              SafeEnd(MethodCall("safeParse", fs, np.rec), np.rec, fs)

(***************************************************************************)
(* The v4 module (parsers.v4.ts): the synchronous operations.              *)
(***************************************************************************)
parseParams_v4(params, sch, options) ==
    LET fs == ResolveV4(sch) IN
    ThrowingEnd(MethodCall("parse", fs, params), options, params, fs)

parseParamsSafe_v4(params, sch) ==
    LET fs == ResolveV4(sch) IN
    SafeEnd(MethodCall("safeParse", fs, params), params, fs)

parseQuery_v4(request, sch, options) ==
    LET sp == SearchParamsOf(request) IN
    IF sp.threw THEN EarlyEnd(ThrowErrorResponse(options, "url"))
    ELSE LET np == parseSearchParams_v4(sp.entries, options.parser) IN
         IF np.threw THEN EarlyEnd(ThrowErrorResponse(options, "parser"))
         ELSE LET fs == ResolveV4(sch) IN
              ThrowingEnd(MethodCall("parse", fs, np.rec), options, np.rec, fs)

parseQuerySafe_v4(request, sch, options) ==
    LET sp == SearchParamsOf(request) IN
    IF sp.threw THEN EarlyEnd(Escapes(ExceptionOf("url"), "url"))
    ELSE LET np == parseSearchParams_v4(sp.entries, options.parser) IN
         IF np.threw THEN EarlyEnd(Escapes(ExceptionOf("parser"), "parser"))
         ELSE LET fs == ResolveV4(sch) IN
              SafeEnd(MethodCall("safeParse", fs, np.rec), np.rec, fs)

(***************************************************************************)
(* The form operations, step by step.  A form call suspends twice: while   *)
(* the form is materialized and while the validator runs.                  *)
(***************************************************************************)

\* A form read: sync says the failure is thrown by the call itself (clone),
\* threw that the read fails, body is the request's body afterwards.
FormRead(sync, threw, entries, body) ==
    [sync |-> sync, threw |-> threw, entries |-> entries, body |-> body]

NoForm == FormRead(FALSE, FALSE, <<>>, "none")

\* parsers.ts: isFormData(request) ? request : await request.clone().formData()
FormDataOf(request) ==
    IF isFormData(request)
    THEN FormRead(FALSE, FALSE, request.entries, request.body)
    ELSE IF request.body = "used"
    THEN FormRead(TRUE, TRUE, <<>>, request.body)
    ELSE IF request.body = "bad"
    THEN FormRead(FALSE, TRUE, <<>>, request.body)
    ELSE FormRead(FALSE, FALSE, request.entries, request.body)

\* parsers.v3.ts, parsers.v4.ts:
\* request instanceof FormData ? request : await request.formData()
FormDataOf_v34(request) ==
    IF isFormData(request)
    THEN FormRead(FALSE, FALSE, request.entries, request.body)
    ELSE IF request.body = "used"
    THEN FormRead(FALSE, TRUE, <<>>, request.body)
    ELSE IF request.body = "bad"
    THEN FormRead(FALSE, TRUE, <<>>, request.body)
    ELSE FormRead(FALSE, FALSE, request.entries, "used")

FormDataFor(m, request) ==
    IF m = "compat" THEN FormDataOf(request) ELSE FormDataOf_v34(request)

\* The record a module's form operations hand on.
FormParamsFor(m, formEntries, options) ==
    CASE m = "compat" -> parseFormData(formEntries, options.parser)
      [] m = "v3" -> FormParams_v3(formEntries, options)
      [] OTHER -> FormParams_v4(formEntries, options)

ResolveFor(m, sch) ==
    CASE m = "compat" -> ResolveCompat(sch)
      [] m = "v3" -> ResolveV3(sch)
      [] OTHER -> ResolveV4(sch)

\* A parseForm that validates through the synchronous entry point.
AsyncCallFor_Sync(m, fs, d) ==
    IF m = "compat" THEN parseCompat(fs, d)
    ELSE MethodCall("parse", fs, d)

\* The asynchronous engine call of a module's parseForm.
AsyncCallFor(m, fs, d) ==
    IF m = "compat" THEN parseAsyncCompat(fs, d)
    ELSE MethodCall("parseAsync", fs, d)

\* The asynchronous engine call of a module's parseFormSafe.
SafeAsyncCallFor(m, fs, d) ==
    IF m = "compat" THEN parseAsyncCompat(fs, d)
    ELSE MethodCall("safeParseAsync", fs, d)

\* What a pending engine call settles to.
Settle(call) ==
    IF call.style = "generic"
    THEN z4Generic(call.entry, call.schema, call.data)
    ELSE OwnMethod(call.entry, call.schema, call.data)

(***************************************************************************)
(* The inputs.                                                             *)
(***************************************************************************)
MaxLen == 3       \* longest source handed to a normalizer on its own
MaxSrcLen == 2    \* longest source handed to an operation

Modules == {"compat", "v3", "v4"}

Ops == {"parseParams", "parseParamsSafe", "parseQuery", "parseQuerySafe",
        "parseForm", "parseFormSafe"}

SeqsUpTo(S, n) == UNION {[1..m -> S] : m \in 0..n}

Distinct(entries) ==
    \A i, j \in 1..Len(entries) : entries[i].k = entries[j].k => i = j

Entry(k, v) == [k |-> k, v |-> v]

\* The pairs of the sources handed to a normalizer on its own.
QueryPairs == {Entry(k, Str(s)) : k \in {"a", "b", "toString"}, s \in {"", "x", "y"}}

FormPairs ==
    {Entry(k, v) : k \in {"a", "b", "toString"},
                   v \in {Str(""), Str("x"), FileV("f.png")}}

\* The pairs of the sources handed to an operation.
CallQueryPairs == {Entry("a", Str("x")), Entry("b", Str("x"))}

CallFormPairs == {Entry("a", Str("x")), Entry("a", FileV("f.png"))}

ParamsSources ==
    {Source("Params", e, TRUE, "none") :
        e \in {x \in SeqsUpTo(CallQueryPairs, MaxSrcLen) : Distinct(x)}}

QuerySources ==
    {Source("URLSearchParams", e, TRUE, "none") :
        e \in SeqsUpTo(CallQueryPairs, MaxSrcLen)}
    \cup {Source("Request", e, TRUE, "form") :
        e \in SeqsUpTo(CallQueryPairs, MaxSrcLen)}
    \cup {Source("Request", <<>>, FALSE, "form")}

FormSources ==
    {Source("FormData", e, TRUE, "none") :
        e \in SeqsUpTo(CallFormPairs, MaxSrcLen)}
    \cup {Source("Request", e, TRUE, "form") :
        e \in SeqsUpTo(CallFormPairs, MaxSrcLen)}
    \cup {Source("Request", <<>>, TRUE, "used"),
          Source("Request", <<>>, TRUE, "bad")}

SourcesFor(o) ==
    CASE o \in {"parseParams", "parseParamsSafe"} -> ParamsSources
      [] o \in {"parseQuery", "parseQuerySafe"} -> QuerySources
      [] OTHER -> FormSources

Reqs == {{"a"}, {"a", "b"}}

Schemas ==
    {Validator(FALSE, TRUE, r, "v3") : r \in Reqs}
    \cup {Validator(TRUE, TRUE, r, "v4") : r \in Reqs}
    \cup {Validator(TRUE, FALSE, r, "v4") : r \in Reqs}
    \cup {Shape(r, l) : r \in Reqs, l \in {"v3", "v4"}}
    \cup {AsyncValidator(FALSE, TRUE, {"a"}, "v3"),
          AsyncValidator(TRUE, TRUE, {"a", "b"}, "v4")}
    \cup {NullSchema, NumberSchema, MarkedFunction}

Options ==
    [message : {NoString, Some(""), Some("Nope")},
     status : {NoNumber, Some(0), Some(422), Some(999)},
     parser : {"none", "fromEntries", "throws"}]

NoOptions == [message |-> NoString, status |-> NoNumber, parser |-> "none"]

NoPrev ==
    [some |-> FALSE, opts |-> NoOptions, err |-> NoError, cause |-> "none",
     what |-> "none", value |-> EmptyObject]

\* The inputs of the calls of a sequence of calls.
SeqOptions ==
    {NoOptions,
     [message |-> Some("Nope"), status |-> Some(422), parser |-> "none"],
     [message |-> NoString, status |-> NoNumber, parser |-> "throws"],
     [message |-> Some("Nope"), status |-> Some(422), parser |-> "throws"]}

SeqSchemas == {Validator(FALSE, TRUE, {"a"}, "v3"), NullSchema}

SeqSourcesFor(o) ==
    CASE o \in {"parseParams", "parseParamsSafe"} ->
            {Source("Params", <<>>, TRUE, "none"),
             Source("Params", <<Entry("a", Str("x"))>>, TRUE, "none")}
      [] o \in {"parseQuery", "parseQuerySafe"} ->
            {Source("URLSearchParams", <<Entry("a", Str("x"))>>, TRUE, "none"),
             Source("Request", <<>>, TRUE, "form"),
             Source("Request", <<>>, FALSE, "form")}
      [] OTHER ->
            {Source("FormData", <<Entry("a", Str("x"))>>, TRUE, "none"),
             Source("Request", <<>>, TRUE, "form"),
             Source("Request", <<>>, TRUE, "used")}

(***************************************************************************)
(* The state machine.                                                      *)
(***************************************************************************)
Fresh ==
    /\ pc = "start"
    /\ formData = NoForm
    /\ data = EmptyObject
    /\ finalSchema = NoSchema
    /\ calls = <<>>
    /\ result = NoResult

\* One call of one operation, with any inputs.
Init ==
    /\ mod \in Modules
    /\ op \in Ops
    /\ src \in SourcesFor(op)
    /\ schema \in Schemas
    /\ opts \in Options
    /\ prev = NoPrev
    /\ Fresh

Finish(r) ==
    /\ result' = r.result
    /\ calls' = r.calls
    /\ data' = r.data
    /\ finalSchema' = r.finalSchema
    /\ pc' = "done"
    /\ UNCHANGED << mod, op, src, schema, opts, formData, prev >>

ParseParams ==
    /\ pc = "start" /\ op = "parseParams"
    /\ Finish(CASE mod = "compat" -> parseParams(ParamsObject(src), schema, opts)
                [] mod = "v3" -> parseParams_v3(ParamsObject(src), schema, opts)
                [] OTHER -> parseParams_v4(ParamsObject(src), schema, opts))

ParseParamsSafe ==
    /\ pc = "start" /\ op = "parseParamsSafe"
    /\ Finish(CASE mod = "compat" -> parseParamsSafe(ParamsObject(src), schema)
                [] mod = "v3" -> parseParamsSafe_v3(ParamsObject(src), schema)
                [] OTHER -> parseParamsSafe_v4(ParamsObject(src), schema))

ParseQuery ==
    /\ pc = "start" /\ op = "parseQuery"
    /\ Finish(CASE mod = "compat" -> parseQuery(src, schema, opts)
                [] mod = "v3" -> parseQuery_v3(src, schema, opts)
                [] OTHER -> parseQuery_v4(src, schema, opts))

ParseQuerySafe ==
    /\ pc = "start" /\ op = "parseQuerySafe"
    /\ Finish(CASE mod = "compat" -> parseQuerySafe(src, schema, opts)
                [] mod = "v3" -> parseQuerySafe_v3(src, schema, opts)
                [] OTHER -> parseQuerySafe_v4(src, schema, opts))

\* A form call ends early with the result res.
FormFails(res) ==
    /\ result' = res
    /\ pc' = "done"
    /\ UNCHANGED << data, finalSchema, calls >>

\* parseForm up to its first await: the form read is started.
ParseFormBegin ==
    /\ pc = "start" /\ op = "parseForm"
    /\ LET f == FormDataFor(mod, src) IN
        /\ src' = [src EXCEPT !.body = f.body]
        /\ formData' = f
        /\ IF f.sync THEN FormFails(ThrowErrorResponse(opts, "body"))
           ELSE pc' = "awaitForm" /\ UNCHANGED << result, data, finalSchema, calls >>
    /\ UNCHANGED << mod, op, schema, opts, prev >>

\* parseForm from the form read to the await of the validator.
ParseFormNormalize ==
    /\ pc = "awaitForm" /\ op = "parseForm"
    /\ IF formData.threw THEN FormFails(ThrowErrorResponse(opts, "body"))
       ELSE LET np == FormParamsFor(mod, formData.entries, opts) IN
            IF np.threw THEN FormFails(ThrowErrorResponse(opts, "parser"))
            ELSE LET fs == ResolveFor(mod, schema)
                     c == AsyncCallFor(mod, fs, np.rec)
                 IN /\ data' = np.rec
                    /\ finalSchema' = fs
                    /\ calls' = <<c.call>>
                    /\ pc' = "awaitParse"
                    /\ result' = result
    /\ UNCHANGED << mod, op, src, schema, opts, formData, prev >>

\* A parseForm that starts over when the validator refused the record.
ParseFormSettle_Retries ==
    /\ pc = "awaitParse" /\ op = "parseForm"
    /\ LET run == Settle(calls[1]) IN
        IF run.out = "ok"
        THEN result' = Returned(run.value) /\ pc' = "done"
        ELSE result' = result /\ pc' = "awaitForm"
    /\ UNCHANGED << mod, op, src, schema, opts, formData, data, finalSchema,
                    calls, prev >>

\* parseForm after the validator settled.
ParseFormSettle ==
    /\ pc = "awaitParse" /\ op = "parseForm"
    /\ LET run == Settle(calls[1]) IN
        result' = IF run.out = "ok" THEN Returned(run.value)
                  ELSE ThrowErrorResponse(opts, CauseOf(run))
    /\ pc' = "done"
    /\ UNCHANGED << mod, op, src, schema, opts, formData, data, finalSchema,
                    calls, prev >>

\* parseFormSafe up to its first await.
ParseFormSafeBegin ==
    /\ pc = "start" /\ op = "parseFormSafe"
    /\ LET f == FormDataFor(mod, src) IN
        /\ src' = [src EXCEPT !.body = f.body]
        /\ formData' = f
        /\ IF f.sync THEN FormFails(Escapes(ExceptionOf("body"), "body"))
           ELSE pc' = "awaitForm" /\ UNCHANGED << result, data, finalSchema, calls >>
    /\ UNCHANGED << mod, op, schema, opts, prev >>

\* parseFormSafe from the form read to the await of the validator.
ParseFormSafeNormalize ==
    /\ pc = "awaitForm" /\ op = "parseFormSafe"
    /\ IF formData.threw THEN FormFails(Escapes(ExceptionOf("body"), "body"))
       ELSE LET np == FormParamsFor(mod, formData.entries, opts) IN
            IF np.threw THEN FormFails(Escapes(ExceptionOf("parser"), "parser"))
            ELSE LET fs == ResolveFor(mod, schema)
                     c == SafeAsyncCallFor(mod, fs, np.rec)
                 IN /\ data' = np.rec
                    /\ finalSchema' = fs
                    /\ calls' = <<c.call>>
                    /\ pc' = "awaitParse"
                    /\ result' = result
    /\ UNCHANGED << mod, op, src, schema, opts, formData, prev >>

\* parseFormSafe after the validator settled: the compat module catches
\* whatever parseAsyncCompat threw; the v3 and v4 modules return the
\* promise of safeParseAsync.
ParseFormSafeSettle ==
    /\ pc = "awaitParse" /\ op = "parseFormSafe"
    /\ LET run == Settle(calls[1]) IN
        result' = IF run.out = "ok" THEN SafeSuccess(run.value)
                  ELSE IF mod = "compat" \/ run.out = "issues"
                  THEN SafeFailure(run.issues, CauseOf(run))
                  ELSE Escapes(ExceptionOf("fault"), "fault")
    /\ pc' = "done"
    /\ UNCHANGED << mod, op, src, schema, opts, formData, data, finalSchema,
                    calls, prev >>

Next ==
    \/ ParseParams
    \/ ParseParamsSafe
    \/ ParseQuery
    \/ ParseQuerySafe
    \/ ParseFormBegin
    \/ ParseFormNormalize
    \/ ParseFormSettle
    \/ ParseFormSafeBegin
    \/ ParseFormSafeNormalize
    \/ ParseFormSafeSettle

Spec == Init /\ [][Next]_vars

(***************************************************************************)
(* A sequence of calls: after a call ended, the next one starts with new   *)
(* inputs; prev keeps the last StandardError thrown.                       *)
(***************************************************************************)
InitSeq ==
    /\ mod \in Modules
    /\ op \in Ops
    /\ src \in SeqSourcesFor(op)
    /\ schema \in SeqSchemas
    /\ opts \in SeqOptions
    /\ prev = NoPrev
    /\ Fresh

NewCall ==
    /\ pc = "done"
    /\ prev' = IF result.what = "StandardError"
               THEN [some |-> TRUE, opts |-> opts, err |-> result.err,
                     cause |-> result.cause, what |-> result.what,
                     value |-> result.value]
               ELSE prev
    /\ mod' \in Modules
    /\ op' \in Ops
    /\ src' \in SeqSourcesFor(op')
    /\ schema' \in SeqSchemas
    /\ opts' \in SeqOptions
    /\ pc' = "start"
    /\ formData' = NoForm
    /\ data' = EmptyObject
    /\ finalSchema' = NoSchema
    /\ calls' = <<>>
    /\ result' = NoResult

NextSeq == Next \/ NewCall

SpecSeq == InitSeq /\ [][NextSeq]_vars

(***************************************************************************)
(* A throwing call followed by its safe counterpart on the same input,     *)
(* schema and options; prev keeps the outcome of the throwing call.        *)
(***************************************************************************)
SafeOf(o) ==
    CASE o = "parseParams" -> "parseParamsSafe"
      [] o = "parseQuery" -> "parseQuerySafe"
      [] OTHER -> "parseFormSafe"

\* The source as it was handed to the call: a request whose form was read
\* by the v3 or v4 module has lost its body.
AsGiven(s, f) ==
    IF s.body = "used" /\ ~f.threw THEN [s EXCEPT !.body = "form"] ELSE s

InitPair ==
    /\ mod \in Modules
    /\ op \in {"parseParams", "parseQuery", "parseForm"}
    /\ src \in SourcesFor(op)
    /\ schema \in Schemas
    /\ opts \in Options
    /\ prev = NoPrev
    /\ Fresh

SafeCounterpart ==
    /\ pc = "done" /\ op \in {"parseParams", "parseQuery", "parseForm"}
    /\ prev' = [some |-> TRUE, opts |-> opts, err |-> result.err,
                cause |-> result.cause, what |-> result.what,
                value |-> result.value]
    /\ op' = SafeOf(op)
    /\ src' = AsGiven(src, formData)
    /\ pc' = "start"
    /\ formData' = NoForm
    /\ data' = EmptyObject
    /\ finalSchema' = NoSchema
    /\ calls' = <<>>
    /\ result' = NoResult
    /\ UNCHANGED << mod, schema, opts >>

NextPair == Next \/ SafeCounterpart

SpecPair == InitPair /\ [][NextPair]_vars

(***************************************************************************)
(* Two form calls on the same Request, one after the other: the second     *)
(* call is handed the request as the first call left it; prev keeps the    *)
(* outcome of the first call.                                              *)
(***************************************************************************)
InitAgain ==
    /\ mod \in Modules
    /\ op \in {"parseForm", "parseFormSafe"}
    /\ src \in {s \in FormSources : s.kind = "Request" /\ s.body = "form"}
    /\ schema \in Schemas
    /\ opts \in Options
    /\ prev = NoPrev
    /\ Fresh

SameRequestAgain ==
    /\ pc = "done" /\ ~prev.some
    /\ prev' = [some |-> TRUE, opts |-> opts, err |-> result.err,
                cause |-> result.cause, what |-> result.what,
                value |-> result.value]
    /\ pc' = "start"
    /\ formData' = NoForm
    /\ data' = EmptyObject
    /\ finalSchema' = NoSchema
    /\ calls' = <<>>
    /\ result' = NoResult
    /\ UNCHANGED << mod, op, src, schema, opts >>

NextAgain ==
    \/ ParseFormBegin
    \/ ParseFormNormalize
    \/ ParseFormSettle
    \/ ParseFormSafeBegin
    \/ ParseFormSafeNormalize
    \/ ParseFormSafeSettle
    \/ SameRequestAgain

SpecAgain == InitAgain /\ [][NextAgain]_vars

(***************************************************************************)
(* The default normalizers on their own.                                   *)
(***************************************************************************)
InitNorm ==
    /\ mod \in Modules
    /\ op = "normalize"
    /\ src \in {Source("URLSearchParams", e, TRUE, "none") :
                    e \in SeqsUpTo(QueryPairs, MaxLen)}
               \cup {Source("FormData", e, TRUE, "none") :
                    e \in SeqsUpTo(FormPairs, MaxLen)}
    /\ schema = NullSchema
    /\ opts = NoOptions
    /\ prev = NoPrev
    /\ Fresh

NormalizeQuery ==
    /\ pc = "start" /\ op = "normalize" /\ src.kind = "URLSearchParams"
    /\ data' = DefaultQueryParser(mod, src.entries)
    /\ pc' = "normalized"
    /\ UNCHANGED << mod, op, src, schema, opts, formData, finalSchema, calls,
                    result, prev >>

NormalizeForm ==
    /\ pc = "start" /\ op = "normalize" /\ src.kind = "FormData"
    /\ data' = DefaultFormParser(mod, src.entries)
    /\ pc' = "normalized"
    /\ UNCHANGED << mod, op, src, schema, opts, formData, finalSchema, calls,
                    result, prev >>

NextNorm == NormalizeQuery \/ NormalizeForm

SpecNorm == InitNorm /\ [][NextNorm]_vars

(***************************************************************************)
(* The primitive coercion schemas (schemas.ts, schemas.v3.ts,              *)
(* schemas.v4.ts), applied to one value.  A value is a string, given by    *)
(* its characters, or absent (undefined).                                  *)
(***************************************************************************)
Text(chars) == [absent |-> FALSE, chars |-> chars]

Absent == [absent |-> TRUE, chars |-> <<>>]

Digits == {"0", "1", "2", "3", "4", "5", "6", "7", "8", "9"}

DigitValue ==
    [c \in Digits |->
        CASE c = "0" -> 0 [] c = "1" -> 1 [] c = "2" -> 2 [] c = "3" -> 3
          [] c = "4" -> 4 [] c = "5" -> 5 [] c = "6" -> 6 [] c = "7" -> 7
          [] c = "8" -> 8 [] OTHER -> 9]

\* The outcome of a coercion schema: the typed value or a validation error.
Coerced(v) ==
    [kind |-> "return", what |-> "value", cause |-> "none", value |-> v,
     issues |-> {}, err |-> NoError]

CoercionFails ==
    [kind |-> "throw", what |-> "ZodError", cause |-> "validation",
     value |-> EmptyObject, issues |-> {"value"}, err |-> NoError]

\* A boolean coercion that takes every string but "false" for true.
BoolAsString_Truthy(v) ==
    IF v.absent THEN CoercionFails
    ELSE Coerced(v.chars # <<"f", "a", "l", "s", "e">>)

\* BoolAsString: "true" and "false" are taken, and the output says whether
\* the string was "true".
BoolAsString(v) ==
    IF v.absent THEN CoercionFails
    ELSE IF v.chars \in {<<"t", "r", "u", "e">>, <<"f", "a", "l", "s", "e">>}
    THEN Coerced(v.chars = <<"t", "r", "u", "e">>)
    ELSE CoercionFails

\* A checkbox coercion that takes "off" for an unchecked box.
CheckboxAsString_OffIsFalse(v) ==
    IF v.absent \/ v.chars = <<"o", "f", "f">> THEN Coerced(FALSE)
    ELSE IF v.chars = <<"o", "n">> THEN Coerced(TRUE)
    ELSE CoercionFails

\* CheckboxAsString: the literal "on" or nothing, and the output says
\* whether the value was "on".
CheckboxAsString(v) ==
    IF v.absent THEN Coerced(FALSE)
    ELSE IF v.chars = <<"o", "n">> THEN Coerced(TRUE)
    ELSE CoercionFails

\* The number a run of digits denotes, read left to right from acc.
RECURSIVE ReadDigits(_, _)
ReadDigits(acc, chars) ==
    IF chars = <<>> THEN acc
    ELSE ReadDigits(10 * acc + DigitValue[Head(chars)], Tail(chars))

\* The longest run of digits a sequence of characters starts with.
RECURSIVE DigitPrefix(_)
DigitPrefix(chars) ==
    IF chars = <<>> \/ Head(chars) \notin Digits THEN <<>>
    ELSE <<Head(chars)>> \o DigitPrefix(Tail(chars))

AllDigits(chars) ==
    chars # <<>> /\ \A i \in 1..Len(chars) : chars[i] \in Digits

\* An integer coercion that reads the digits a string starts with and
\* leaves the rest alone, as parseInt does.
IntAsString_ReadsPrefix(v) ==
    IF v.absent \/ v.chars = <<>> THEN CoercionFails
    ELSE LET neg == Head(v.chars) = "-"
             body == DigitPrefix(IF neg THEN Tail(v.chars) ELSE v.chars)
         IN IF body = <<>> THEN CoercionFails
            ELSE Coerced(IF neg THEN 0 - ReadDigits(0, body)
                         ELSE ReadDigits(0, body))

\* IntAsString: an optional minus sign and then digits only; the output is
\* the integer read from them.
IntAsString(v) ==
    IF v.absent \/ v.chars = <<>> THEN CoercionFails
    ELSE LET neg == Head(v.chars) = "-"
             body == IF neg THEN Tail(v.chars) ELSE v.chars
         IN IF AllDigits(body)
            THEN Coerced(IF neg THEN 0 - ReadDigits(0, body)
                         ELSE ReadDigits(0, body))
            ELSE CoercionFails

MaxStrLen == 3    \* longest string of arbitrary characters handed to a schema

Alphabet == {"0", "4", "2", "-", ".", "a"}

Words ==
    {<<"t", "r", "u", "e">>, <<"f", "a", "l", "s", "e">>, <<"T", "r", "u", "e">>,
     <<"o", "n">>, <<"o", "f", "f">>, <<"y", "e", "s">>, <<"4", "2", ".", "5">>}

CoercionInputs ==
    {Text(c) : c \in SeqsUpTo(Alphabet, MaxStrLen) \cup Words} \cup {Absent}

CoercionSchemas == {"BoolAsString", "CheckboxAsString", "IntAsString"}

InitCoerce ==
    /\ mod \in Modules
    /\ op \in CoercionSchemas
    /\ src \in CoercionInputs
    /\ schema = NullSchema
    /\ opts = NoOptions
    /\ prev = NoPrev
    /\ Fresh

Coerce(r) ==
    /\ pc = "start"
    /\ result' = r
    /\ pc' = "coerced"
    /\ UNCHANGED << mod, op, src, schema, opts, formData, data, finalSchema,
                    calls, prev >>

CoerceBool == op = "BoolAsString" /\ Coerce(BoolAsString(src))

CoerceCheckbox == op = "CheckboxAsString" /\ Coerce(CheckboxAsString(src))

CoerceInt == op = "IntAsString" /\ Coerce(IntAsString(src))

NextCoerce == CoerceBool \/ CoerceCheckbox \/ CoerceInt

SpecCoerce == InitCoerce /\ [][NextCoerce]_vars

(***************************************************************************)
(* The claims.                                                             *)
(***************************************************************************)
NormKeys == {"a", "b", "toString"}

\* The values of a key in a source, in source order.
ValuesOf(entries, key) ==
    LET sel == SelectSeq(entries, LAMBDA e : e.k = key)
    IN [i \in 1..Len(sel) |-> sel[i].v]

\* C1: the default query normalizer maps a key occurring once to its value
\* as a bare string, a key occurring n >= 2 times to the list of its n values
\* in source order, and leaves out a key that does not occur; for every key
\* and every string value, the empty string included.
C1_QueryNormalizerRule ==
    (pc = "normalized" /\ src.kind = "URLSearchParams") =>
        \A key \in NormKeys :
            LET occ == ValuesOf(src.entries, key) IN
            CASE Len(occ) = 0 -> key \notin DOMAIN data
              [] Len(occ) = 1 -> key \in DOMAIN data /\ data[key] = occ[1]
              [] OTHER -> key \in DOMAIN data /\ data[key] = Arr(occ)

\* C4: for every form with file entries, the default form normalizer's
\* record holds the file's declared name at each position where a file
\* occurred, and never the binary value or another stand-in, also when the
\* file's key is repeated or shared with string entries.
C4_FileNameAtEachPosition ==
    (pc = "normalized" /\ src.kind = "FormData") =>
        \A key \in NormKeys :
            LET occ == ValuesOf(src.entries, key) IN
            \A i \in 1..Len(occ) :
                IsFile(occ[i]) =>
                    /\ key \in DOMAIN data
                    /\ IF Len(occ) = 1 THEN data[key] = Str(occ[i].s)
                       ELSE /\ IsArray(data[key])
                            /\ Len(data[key].l) = Len(occ)
                            /\ data[key].l[i] = Str(occ[i].s)

\* C5: the default form normalizer represents a key as a list if and only
\* if the key occurred more than once, the list holding one element per
\* occurrence in source order (a string as it is, a file by a stand-in);
\* no key is a single-element list, no occurrence is dropped or overwritten.
C5_ListIffRepeated ==
    (pc = "normalized" /\ src.kind = "FormData") =>
        \A key \in NormKeys :
            LET occ == ValuesOf(src.entries, key) IN
            CASE Len(occ) = 0 -> key \notin DOMAIN data
              [] Len(occ) = 1 -> key \in DOMAIN data /\ ~IsArray(data[key])
              [] OTHER ->
                    /\ key \in DOMAIN data
                    /\ IsArray(data[key])
                    /\ Len(data[key].l) = Len(occ)
                    /\ \A i \in 1..Len(occ) :
                          ~IsFile(occ[i]) => data[key].l[i] = occ[i]

ThrowingOps == {"parseParams", "parseQuery", "parseForm"}

SafeOps == {"parseParamsSafe", "parseQuerySafe", "parseFormSafe"}

\* C2: every fault raised during parseParams, parseQuery or parseForm ends
\* the call with a StandardError thrown and with no other kind of exception
\* escaping, for every options value: a finished throwing call has returned
\* its data or has thrown the StandardError.
C2_OnlyStandardErrorEscapes ==
    (pc = "done" /\ op \in ThrowingOps) =>
        \/ result.kind = "return" /\ result.what = "data"
        \/ result.kind = "throw" /\ result.what = "StandardError"

\* C3: parseParamsSafe, parseQuerySafe and parseFormSafe never throw and
\* never reject: a finished safe call has returned {success: true, data}
\* or {success: false, error}.
C3_SafeNeverThrows ==
    (pc = "done" /\ op \in SafeOps) =>
        /\ result.kind = "return"
        /\ result.what \in {"success", "failure"}

\* C6: createErrorResponse(options) returns a StandardError whose status
\* text is options.message whenever a message is supplied and "Bad Request"
\* otherwise, and whose status is options.status whenever a status is
\* supplied and 400 otherwise, for every supplied string and integer; seen
\* where a failing throwing call constructs its error.
C6_ErrorFromOptions ==
    (pc = "done" /\ op \in ThrowingOps /\ result.cause # "none") =>
        /\ result.what = "StandardError"
        /\ result.err.statusText =
              (IF opts.message.some THEN opts.message.v ELSE "Bad Request")
        /\ result.err.status =
              (IF opts.status.some THEN opts.status.v ELSE 400)

SameMessageAndStatus(o1, o2) ==
    o1.message = o2.message /\ o1.status = o2.status

\* C7: the StandardError thrown by a failing parseParams, parseQuery or
\* parseForm depends only on the options' message and status: it equals the
\* StandardError an earlier failing call threw under equal message and
\* status, whatever the inputs, the schemas and the causes of the two
\* failures, and it carries no issue and no value.
C7_ErrorDependsOnlyOnOptions ==
    (pc = "done" /\ result.what = "StandardError") =>
        /\ result.issues = {}
        /\ result.value = EmptyObject
        /\ result.err.body = result.err.statusText
        /\ (prev.some /\ SameMessageAndStatus(prev.opts, opts)) =>
              result.err = prev.err

\* Two calls failed for different causes under options with equal message
\* and status (and different parsers), and both threw the StandardError.
C7_Witness ==
    /\ pc = "done" /\ result.what = "StandardError"
    /\ prev.some /\ SameMessageAndStatus(prev.opts, opts)
    /\ prev.opts.parser # opts.parser
    /\ prev.cause # result.cause
    /\ opts.message.some

\* The validator a call resolved is the schema argument itself.
UsedUnchanged ==
    /\ finalSchema = AsIs(schema)
    /\ \A i \in 1..Len(calls) : calls[i].schema = AsIs(schema)

\* C8 as stated: in every entry point (compat, v3 and v4 module) a schema
\* argument that is a pre-built validator of either generation is used
\* unchanged for parsing and is never wrapped as if it were a shape.
C8_PrebuiltUnchangedEverywhere ==
    (calls # <<>> /\ IsPrebuilt(schema)) => UsedUnchanged

\* The generations whose pre-built validators a module takes as they are.
OwnGenerations(m) ==
    CASE m = "compat" -> {"v3", "v4"}
      [] m = "v3" -> {"v3"}
      [] OTHER -> {"v4"}

\* C8 as amended: a pre-built validator is used unchanged and never wrapped
\* in the compat module (either generation), in the v3 module when it is a
\* Legacy validator and in the v4 module when it is a Modern validator.
C8_PrebuiltUnchangedOwnGeneration ==
    (calls # <<>> /\ IsPrebuilt(schema)
        /\ GenerationOf(schema) \in OwnGenerations(mod)) => UsedUnchanged

\* The compat module parsed with a Modern validator as it was given, and
\* the v3 module with a Legacy one.
C8_Witness ==
    /\ pc = "done" /\ calls # <<>> /\ IsPrebuilt(schema) /\ UsedUnchanged
    /\ \/ mod = "compat" /\ schema.zod
       \/ mod = "v3" /\ ~schema.zod

\* The generation that owns a resolved validator: the one whose object
\* constructor wrapped the shape, else the one that built the validator.
Owner(fs) == IF fs.wrapped THEN fs.by ELSE fs.base.leaf

EntryOf(o) ==
    CASE o = "parseParams" \/ o = "parseQuery" -> "parse"
      [] o = "parseParamsSafe" \/ o = "parseQuerySafe" -> "safeParse"
      [] OTHER -> "parseAsync"

\* C9: parseCompat, safeParseCompat and parseAsyncCompat route each call to
\* the generation that owns the validator: a Modern validator only through
\* the Modern engine's generic entry point called with (schema, data), a
\* Legacy validator only through its own method, both with the data the
\* operation normalized; no call reaches the other generation's entry point.
C9_DispatchToOwner ==
    (mod = "compat") =>
        \A i \in 1..Len(calls) :
            LET c == calls[i] IN
            /\ c.schema = finalSchema
            /\ c.data = data
            /\ c.entry = EntryOf(op)
            /\ c.engine = Owner(finalSchema)
            /\ c.style = IF Owner(finalSchema) = "v4" THEN "generic"
                         ELSE "method"

\* The compat module finished a call on a Modern validator, made through
\* the Modern engine's generic entry point.
C9_Witness ==
    /\ mod = "compat" /\ pc = "done" /\ Len(calls) = 1
    /\ Owner(finalSchema) = "v4"
    /\ calls[1].engine = "v4" /\ calls[1].style = "generic"
    /\ result.kind = "return"

\* The class the claim assigns to a value.
ClassOf(v) ==
    IF v.ty = "object" /\ v.zod THEN "Modern"
    ELSE IF v.ty = "object" /\ v.def THEN "Legacy"
    ELSE "Neither"

\* C10: classification assigns the schema argument exactly one of Modern,
\* Legacy, Neither: Modern iff it is a non-null object carrying the Modern
\* marker, Legacy iff it is a non-null object carrying the Legacy marker and
\* not the Modern one, Neither otherwise; isZodSchema is true iff the class
\* is not Neither, and isZodV3Schema and isZodV4Schema are never both true.
C10_Classification ==
    /\ isZodV4Schema(schema) <=> (ClassOf(schema) = "Modern")
    /\ isZodV3Schema(schema) <=> (ClassOf(schema) = "Legacy")
    /\ isZodSchema(schema) <=> (ClassOf(schema) # "Neither")
    /\ ~(isZodV3Schema(schema) /\ isZodV4Schema(schema))

\* The compat module resolved a validator that carries both markers and
\* took it, as a Modern validator, as it was.
C10_Witness ==
    /\ mod = "compat" /\ pc = "done"
    /\ schema.ty = "object" /\ schema.zod /\ schema.def
    /\ finalSchema = AsIs(schema)
    /\ Len(calls) = 1 /\ calls[1].engine = "v4"

\* A schema argument that is neither a validator nor a shape description.
IsJunk(s) == ~IsPrebuilt(s) /\ ~IsPlainShape(s)

\* C11: a schema argument that is neither a validator nor a mapping from
\* field names to validators (null, a number, a function) never produces a
\* successful parse: with a readable source and default options, a throwing
\* operation throws the StandardError and a safe operation returns
\* {success: false, error}.
C11_JunkSchemaNeverSucceeds ==
    (pc = "done" /\ IsJunk(schema) /\ opts = NoOptions
        /\ src.urlOk /\ ~formData.threw) =>
        IF op \in ThrowingOps
        THEN result.kind = "throw" /\ result.what = "StandardError"
        ELSE result.kind = "return" /\ result.what = "failure"

FormOps == {"parseForm", "parseFormSafe"}

\* C12: after parseForm or parseFormSafe read the form of a Request whose
\* body was unread, the body of that request is still unread, in every
\* entry point (compat, v3 and v4 module): only a clone was read.
C12_BodyStillUnread ==
    (op \in FormOps /\ src.kind = "Request" /\ pc # "start"
        /\ ~formData.threw) => src.body = "form"

NormalizingOps == {"parseQuery", "parseQuerySafe", "parseForm", "parseFormSafe"}

\* The entries a call hands to its normalizer.
EntriesRead == IF op \in FormOps THEN formData.entries ELSE src.entries

\* What the default normalizer of the call's module would make of them.
DefaultRecord ==
    IF op \in FormOps THEN DefaultFormParser(mod, EntriesRead)
    ELSE DefaultQueryParser(mod, EntriesRead)

\* C13: when options.parser is supplied to parseQuery, parseQuerySafe,
\* parseForm or parseFormSafe, the validator receives exactly the record the
\* custom parser returned for the entries read: the default normalizer is
\* not run and nothing is promoted, substituted or otherwise post-processed.
C13_CustomParserReplacesDefault ==
    (op \in NormalizingOps /\ opts.parser # "none" /\ calls # <<>>) =>
        /\ data = CustomParser(opts.parser, EntriesRead).rec
        /\ \A i \in 1..Len(calls) :
              calls[i].data = CustomParser(opts.parser, EntriesRead).rec

\* A query call and a form call each reached the validator with a custom
\* parser's record that differs from what the default normalizer gives.
C13_Witness ==
    /\ pc = "done" /\ opts.parser = "fromEntries" /\ Len(calls) = 1
    /\ calls[1].data # DefaultRecord
    /\ \/ op = "parseQuery" /\ mod = "compat"
       \/ op = "parseFormSafe" /\ mod = "v4"

\* The safe call that followed a throwing call has ended.
PairDone == prev.some /\ pc = "done" /\ op \in SafeOps

\* The input conforms: the resolved validator accepts the normalized record.
Conforms == calls # <<>> /\ Settle(calls[1]).out = "ok"

C15_SafeResultShape ==
    (pc = "done" /\ op \in SafeOps /\ result.kind = "return") =>
        /\ result.what \in {"success", "failure"}
        /\ (result.what = "success") <=> Conforms
        /\ result.what = "success" =>
              /\ result.value = Settle(calls[1]).value
              /\ result.issues = {} /\ result.cause = "none"
        /\ result.what = "failure" =>
              /\ result.value = EmptyObject
              /\ result.cause # "none"

\* The compat module returned {success: false, error} for a Modern
\* validator, with the issues of the missing fields.
C15_Witness ==
    /\ pc = "done" /\ op = "parseParamsSafe" /\ mod = "compat"
    /\ IsPrebuilt(schema) /\ schema.zod
    /\ result.kind = "return" /\ result.what = "failure"
    /\ result.issues # {}

\* z3.object(shape) built by the caller: the Legacy object validator of the
\* shape's fields.
LegacyObjectOf(shape) == Validator(FALSE, TRUE, shape.req, "v3")

\* The outcome of parseParams or parseParamsSafe of a module.
ParamsOutcome(m, o, params, sch, options) ==
    CASE m = "compat" /\ o = "parseParams" -> parseParams(params, sch, options).result
      [] m = "compat" -> parseParamsSafe(params, sch).result
      [] m = "v3" /\ o = "parseParams" -> parseParams_v3(params, sch, options).result
      [] m = "v3" -> parseParamsSafe_v3(params, sch).result
      [] o = "parseParams" -> parseParams_v4(params, sch, options).result
      [] OTHER -> parseParamsSafe_v4(params, sch).result

\* C16: for every params record, parseParams and parseParamsSafe given a
\* bare shape of Legacy field validators end as they do when given the
\* Legacy object validator built from that shape (same value returned, same
\* issues, same error thrown); in the modules that wrap with the Legacy
\* constructor, the compat and the v3 module.
C16_ShapeEqualsLegacyObject ==
    (pc = "done" /\ op \in {"parseParams", "parseParamsSafe"}
        /\ mod \in {"compat", "v3"}
        /\ IsPlainShape(schema) /\ schema.leaf = "v3") =>
        result = ParamsOutcome(mod, op, ParamsObject(src),
                               LegacyObjectOf(schema), opts)

\* parseParams of the compat module returned the parsed fields for a bare
\* shape, and parseParamsSafe reported issues for one.
C16_Witness ==
    /\ pc = "done" /\ mod = "compat"
    /\ IsPlainShape(schema) /\ schema.leaf = "v3"
    /\ finalSchema = createObjectSchema(schema)
    /\ \/ op = "parseParams" /\ result.what = "data"
             /\ DOMAIN result.value = schema.req
       \/ op = "parseParamsSafe" /\ result.what = "failure"
             /\ result.issues # {}

\* The shape was wrapped by the object constructor of generation g and
\* parsed through that validator's own method.
ShapeWrappedBy(g) ==
    /\ finalSchema = [wrapped |-> TRUE, by |-> g, base |-> schema]
    /\ \A i \in 1..Len(calls) :
          /\ calls[i].schema = finalSchema
          /\ calls[i].engine = g
          /\ calls[i].style = "method"

\* C17 as stated: whenever the schema argument is a bare shape description,
\* in every entry point (compat, v3 and v4 module), the wrapping validator is
\* built with the Legacy engine's object constructor and the parse runs on
\* the Legacy path; a shape is never wrapped by the Modern engine.
C17_ShapeWrappedLegacyEverywhere ==
    (IsPlainShape(schema) /\ calls # <<>>) => ShapeWrappedBy("v3")

\* The generation whose object constructor a module wraps shapes with.
WrapperOf(m) == IF m = "v4" THEN "v4" ELSE "v3"

\* C17 as amended: a bare shape is wrapped with the Legacy object
\* constructor and parsed on the Legacy path in the compat and the v3
\* module; the v4 module wraps it with the Modern object constructor and
\* parses through that validator's own method.
C17_ShapeWrappedByModuleEngine ==
    (IsPlainShape(schema) /\ calls # <<>>) => ShapeWrappedBy(WrapperOf(mod))

\* The compat module parsed a record with a shape it wrapped with the
\* Legacy constructor, and the v4 module with one it wrapped with the Modern.
C17_Witness ==
    /\ pc = "done" /\ IsPlainShape(schema) /\ Len(calls) = 1
    /\ result.what = "data"
    /\ \/ mod = "compat" /\ finalSchema.by = "v3"
       \/ mod = "v4" /\ finalSchema.by = "v4"

\* The module parses with the schema argument: a validator of a generation
\* it takes as it is, or a shape of fields of the generation it wraps with.
Supported(m, s) ==
    \/ IsPrebuilt(s) /\ GenerationOf(s) \in OwnGenerations(m)
    \/ IsPlainShape(s) /\ s.leaf = WrapperOf(m)

KeysOf(entries) == {entries[i].k : i \in 1..Len(entries)}

\* C18: parseFormSafe given a readable form that lacks a field the schema
\* requires resolves to {success: false, error} whose issues are not empty
\* and hold an issue whose path is that field's name, for every required
\* field and for validators of both generations.
C18_MissingFieldIssue ==
    (pc = "done" /\ op = "parseFormSafe" /\ ~formData.threw
        /\ opts.parser # "throws" /\ Supported(mod, schema)) =>
        \A f \in schema.req :
            f \notin KeysOf(formData.entries) =>
                /\ result.kind = "return" /\ result.what = "failure"
                /\ f \in result.issues

\* parseFormSafe of the compat module reported the one field that a
\* request's form lacked, for a Modern validator.
C18_Witness ==
    /\ pc = "done" /\ op = "parseFormSafe" /\ mod = "compat"
    /\ src.kind = "Request" /\ IsPrebuilt(schema) /\ schema.zod
    /\ schema.req = {"a", "b"} /\ KeysOf(formData.entries) = {"a"}
    /\ result.what = "failure" /\ result.issues = {"b"}

ParamsOps == {"parseParams", "parseParamsSafe"}

\* C19: parseParams and parseParamsSafe hand the validator the params
\* mapping unchanged (no key renamed, added, removed or normalized, and
\* options.parser not applied); so a params record that lacks a field the
\* schema requires does not parse, whatever other keys it holds.
C19_ParamsPassedUnchanged ==
    (pc = "done" /\ op \in ParamsOps) =>
        /\ Len(calls) = 1
        /\ calls[1].data = ParamsObject(src)
        /\ data = ParamsObject(src)
        /\ \A f \in schema.req :
              f \notin DOMAIN ParamsObject(src) =>
                  result.what \notin {"data", "success"}

\* A params record holding only a, parsed against a schema that requires a
\* and b under options whose parser throws, reached the validator as it was
\* and failed on b.
C19_Witness ==
    /\ pc = "done" /\ op \in ParamsOps
    /\ DOMAIN ParamsObject(src) = {"a"} /\ schema.req = {"a", "b"}
    /\ opts.parser = "throws"
    /\ Len(calls) = 1 /\ calls[1].data = ParamsObject(src)
    /\ result.cause = "validation"

\* C20: a request whose form body is absent, already consumed or unreadable
\* is handled like a validation failure: with default options, parseForm
\* throws the StandardError and parseFormSafe resolves to
\* {success: false, error} instead of rejecting.
C20_UnreadableBodyIsFailure ==
    (pc = "done" /\ op \in FormOps /\ src.kind = "Request"
        /\ formData.threw /\ opts = NoOptions) =>
        IF op = "parseForm"
        THEN result.kind = "throw" /\ result.what = "StandardError"
        ELSE result.kind = "return" /\ result.what = "failure"

CoercionFailed == result.kind = "throw" /\ result.what = "ZodError"

\* C21: BoolAsString maps the string "true" to true and "false" to false,
\* and every other string is a validation failure; the definitions of the
\* three schema modules (Legacy-backed and Modern-backed) agree on every
\* input, each giving this one mapping.
C21_BoolAsString ==
    (pc = "coerced" /\ op = "BoolAsString" /\ ~src.absent) =>
        CASE src.chars = <<"t", "r", "u", "e">> -> result = Coerced(TRUE)
          [] src.chars = <<"f", "a", "l", "s", "e">> -> result = Coerced(FALSE)
          [] OTHER -> CoercionFailed

\* The Modern-backed BoolAsString refused "True", and gave true for "true".
C21_Witness ==
    /\ pc = "coerced" /\ op = "BoolAsString" /\ mod = "v4"
    /\ \/ src.chars = <<"T", "r", "u", "e">> /\ CoercionFailed
       \/ src.chars = <<"t", "r", "u", "e">> /\ result.value = TRUE

\* C22: CheckboxAsString maps "on" to true and an absent (undefined) value
\* to false, and every other string, "off" and the empty string included,
\* is a validation failure.
C22_CheckboxAsString ==
    (pc = "coerced" /\ op = "CheckboxAsString") =>
        IF src.absent THEN result = Coerced(FALSE)
        ELSE IF src.chars = <<"o", "n">> THEN result = Coerced(TRUE)
        ELSE CoercionFailed

\* CheckboxAsString gave false for an absent value and refused "off" and
\* the empty string.
C22_Witness ==
    /\ pc = "coerced" /\ op = "CheckboxAsString"
    /\ \/ src.absent /\ result.value = FALSE
       \/ ~src.absent /\ src.chars = <<"o", "f", "f">> /\ CoercionFailed
       \/ ~src.absent /\ src.chars = <<>> /\ CoercionFailed

DigitChar == [n \in 0..9 |-> CHOOSE c \in Digits : DigitValue[c] = n]

\* The decimal numeral of a natural number.
RECURSIVE Numeral(_)
Numeral(n) ==
    IF n < 10 THEN <<DigitChar[n]>>
    ELSE Numeral(n \div 10) \o <<DigitChar[n % 10]>>

\* A run of digits without its leading zeros (one digit at least is kept).
RECURSIVE StripZeros(_)
StripZeros(chars) ==
    IF Len(chars) > 1 /\ Head(chars) = "0" THEN StripZeros(Tail(chars))
    ELSE chars

Signed(chars) == chars # <<>> /\ chars[1] = "-"

Unsigned(chars) == IF Signed(chars) THEN Tail(chars) ELSE chars

\* A numeric string with no fractional part: digits, after a minus sign or
\* not.
IntegerString(chars) ==
    /\ Unsigned(chars) # <<>>
    /\ \A i \in 1..Len(Unsigned(chars)) : Unsigned(chars)[i] \in Digits

\* C23: IntAsString maps a numeric string with no fractional part to the
\* integer it denotes (the integer whose decimal numeral, sign apart, is the
\* string's digits), and fails for every string that is not numeric or has
\* a fractional part.
C23_IntAsString ==
    (pc = "coerced" /\ op = "IntAsString" /\ ~src.absent) =>
        IF IntegerString(src.chars)
        THEN /\ result.kind = "return" /\ result.what = "value"
             /\ result.value \in Int
             /\ IF Signed(src.chars)
                THEN /\ result.value <= 0
                     /\ Numeral(0 - result.value) =
                            StripZeros(Unsigned(src.chars))
                ELSE /\ result.value >= 0
                     /\ Numeral(result.value) = StripZeros(src.chars)
        ELSE CoercionFailed

\* IntAsString gave -42 for "-42", 42 for "042", and refused "42.5".
C23_Witness ==
    /\ pc = "coerced" /\ op = "IntAsString"
    /\ \/ src.chars = <<"-", "4", "2">> /\ result.value = 0 - 42
       \/ src.chars = <<"0", "4", "2">> /\ result.value = 42
       \/ src.chars = <<"4", "2", ".", "5">> /\ CoercionFailed

AsyncEntries == {"parseAsync", "safeParseAsync"}

\* C24: parseForm and parseFormSafe always validate through the
\* asynchronous parse entry point and await it: the call does not end before
\* the validator settled, a schema whose field refinements are asynchronous
\* is accepted on the form path, and a rejection for validation issues is
\* converted inside the call (by the catch block of parseForm, into
\* {success: false, error} by parseFormSafe); parseParams and parseQuery use
\* only the synchronous entry point.
C24_FormPathIsAsync ==
    /\ \A i \in 1..Len(calls) :
          /\ op \in FormOps => calls[i].entry \in AsyncEntries
          /\ op \in {"parseParams", "parseQuery"} => calls[i].entry = "parse"
    /\ (op \in FormOps /\ pc = "awaitParse") => result = NoResult
    /\ (op \in FormOps /\ pc = "done" /\ calls # <<>>
            /\ IsPrebuilt(schema) /\ schema.async
            /\ finalSchema = AsIs(schema)) =>
          LET run == Validate(finalSchema, data) IN
          CASE run.out = "ok" ->
                  /\ result.kind = "return"
                  /\ result.value = run.value
            [] run.out = "issues" /\ op = "parseForm" ->
                  result = ThrowErrorResponse(opts, "validation")
            [] OTHER ->
                  result = SafeFailure(run.issues, "validation")

\* A form call with a validator whose refinements are asynchronous returned
\* the parsed record, and another one was refused for a missing field.
C24_Witness ==
    /\ pc = "done" /\ IsPrebuilt(schema) /\ schema.async
    /\ Len(calls) = 1 /\ calls[1].entry \in AsyncEntries
    /\ \/ op = "parseForm" /\ result.what = "data"
             /\ DOMAIN result.value = schema.req
       \/ op = "parseForm" /\ result.what = "StandardError"
             /\ result.cause = "validation"
       \/ op = "parseFormSafe" /\ result.what = "failure"
             /\ result.issues # {}

\* The call got a normalized record: the source could be read and the
\* parser, if one was applied, returned.
Normalized ==
    /\ op \in {"parseQuery", "parseQuerySafe"} => src.urlOk
    /\ op \in FormOps => ~formData.threw
    /\ op \in NormalizingOps => opts.parser # "throws"

\* C25: one call of any of the six operations is a single attempt: the
\* validator is invoked exactly once when normalization succeeded and never
\* after it failed; once the form is materialized, the record normalized or
\* the validator invoked, none of them is done again, and the one await of
\* the validator is followed by the end of the call: nothing is retried.
C25_SingleAttempt ==
    /\ [](/\ Len(calls) <= 1
          /\ pc = "done" => (Len(calls) = 1 <=> Normalized)
          /\ pc = "awaitParse" => Len(calls) = 1)
    /\ [][/\ formData # NoForm => formData' = formData
          /\ pc \in {"awaitParse", "done"} =>
                /\ data' = data
                /\ calls' = calls
                /\ finalSchema' = finalSchema
          /\ pc = "awaitForm" => pc' \in {"awaitParse", "done"}
          /\ pc = "awaitParse" => pc' = "done"
          /\ pc = "done" => pc' = "done"]_vars

\* parseForm read a request's form once, invoked the validator once, was
\* refused and ended.
C25_Witness ==
    /\ pc = "done" /\ op = "parseForm" /\ src.kind = "Request"
    /\ formData.entries # <<>> /\ Len(calls) = 1
    /\ result.cause = "validation"

\* C26: parseForm and parseFormSafe calls on the same unconsumed Request
\* each see the complete form and each return the same outcome; no call
\* fails because another call already read the body.  Stated for a second
\* call of the same operation that follows a first one.
C26_SecondCallSameOutcome ==
    (prev.some /\ pc = "done") =>
        /\ ~formData.threw
        /\ formData.entries = src.entries
        /\ result.what = prev.what
        /\ result.value = prev.value
        /\ result.err = prev.err

\* C27: for every query source and every form, the default normalizer of
\* the compat module and the default normalizers of the v3 and v4 modules
\* return equal records: the record one module's normalizer made is the
\* record each other module's normalizer makes of the same source.
C27_NormalizersAgree ==
    (pc = "normalized") =>
        \A m \in Modules :
            IF src.kind = "URLSearchParams"
            THEN DefaultQueryParser(m, src.entries) = data
            ELSE DefaultFormParser(m, src.entries) = data

\* C28: for every input, schema and options on which a safe operation
\* returns {success: false, error}, the corresponding throwing operation
\* throws the StandardError and returns no value; a throwing operation
\* returns a value only where the safe operation returns success: true.
C28_SafeFailureIffThrow ==
    PairDone =>
        /\ result.what = "failure" =>
              /\ prev.what = "StandardError"
              /\ prev.value = EmptyObject
        /\ prev.what = "data" => result.what = "success"

\* The query operation o of module m on a source.
QueryCall(m, o, request, sch, options) ==
    CASE m = "compat" /\ o = "parseQuery" -> parseQuery(request, sch, options)
      [] m = "compat" -> parseQuerySafe(request, sch, options)
      [] m = "v3" /\ o = "parseQuery" -> parseQuery_v3(request, sch, options)
      [] m = "v3" -> parseQuerySafe_v3(request, sch, options)
      [] o = "parseQuery" -> parseQuery_v4(request, sch, options)
      [] OTHER -> parseQuerySafe_v4(request, sch, options)

QueryOutcome(m, o, request, sch, options) ==
    QueryCall(m, o, request, sch, options).result

QueryOps == {"parseQuery", "parseQuerySafe"}

\* The call is a finished query call on a request whose URL parses.
QueryOfRequest ==
    /\ pc = "done" /\ op \in QueryOps
    /\ src.kind = "Request" /\ src.urlOk

\* C29: parseQuery and parseQuerySafe given a request return the outcome
\* they return given the search-params object of that request's URL.
C29_RequestEqualsItsSearchParams ==
    QueryOfRequest =>
        LET given == QueryCall(mod, op,
                         Source("URLSearchParams", src.entries, TRUE, "none"),
                         schema, opts)
        IN /\ result = given.result
           /\ data = given.data

C29_Witness ==
    /\ QueryOfRequest
    /\ src.entries # <<>>
    /\ result.what \in {"data", "success"}
    /\ result.value # EmptyObject

(***************************************************************************)
(* Calls that follow one another on the same source object: each call      *)
(* finds the source as the calls before it left it.                        *)
(***************************************************************************)
\* The operations that accept a source of a kind.
AcceptedBy(kind) ==
    CASE kind = "Params" -> ParamsOps
      [] kind = "URLSearchParams" -> QueryOps
      [] kind = "FormData" -> FormOps
      [] OTHER -> QueryOps \cup FormOps

\* The source as it was handed to the first call: its body not yet read.
AsFirstGiven(s) ==
    [s EXCEPT !.body = IF s.kind = "Request" THEN "form" ELSE "none"]

\* The sources of a first call: none of them read before.
ReuseSourcesFor(o) ==
    {s \in SeqSourcesFor(o) : s = AsFirstGiven(s)}
    \cup IF o \in ParamsOps THEN {}
         ELSE {Source("Request", <<Entry("a", Str("x"))>>, TRUE, "form")}

InitReuse ==
    /\ mod \in Modules
    /\ op \in Ops
    /\ src \in ReuseSourcesFor(op)
    /\ schema \in SeqSchemas
    /\ opts \in SeqOptions
    /\ prev = NoPrev
    /\ Fresh

\* Another call, of any module and operation that accepts it, on the source
\* of the call before.
CallAgain ==
    /\ pc = "done"
    /\ mod' \in Modules
    /\ op' \in AcceptedBy(src.kind)
    /\ schema' \in SeqSchemas
    /\ opts' \in SeqOptions
    /\ pc' = "start"
    /\ formData' = NoForm
    /\ data' = EmptyObject
    /\ finalSchema' = NoSchema
    /\ calls' = <<>>
    /\ result' = NoResult
    /\ UNCHANGED << src, prev >>

NextReuse == Next \/ CallAgain

SpecReuse == InitReuse /\ [][NextReuse]_vars

\* What a form operation returns or throws: the form read, the normalizer,
\* the resolution and the asynchronous engine call, one after the other.
FormOutcome(m, o, request, sch, options) ==
    LET f == FormDataFor(m, request)
        stops(cause) == IF o = "parseForm"
                        THEN ThrowErrorResponse(options, cause)
                        ELSE Escapes(ExceptionOf(cause), cause)
    IN IF f.sync \/ f.threw THEN stops("body")
       ELSE LET np == FormParamsFor(m, f.entries, options) IN
            IF np.threw THEN stops("parser")
            ELSE LET fs == ResolveFor(m, sch)
                     c == IF o = "parseForm" THEN AsyncCallFor(m, fs, np.rec)
                          ELSE SafeAsyncCallFor(m, fs, np.rec)
                     run == Settle(c.call)
                 IN IF o = "parseForm"
                    THEN IF run.out = "ok" THEN Returned(run.value)
                         ELSE ThrowErrorResponse(options, CauseOf(run))
                    ELSE IF run.out = "ok" THEN SafeSuccess(run.value)
                    ELSE IF m = "compat" \/ run.out = "issues"
                    THEN SafeFailure(run.issues, CauseOf(run))
                    ELSE Escapes(ExceptionOf("fault"), "fault")

\* What the operation o of module m returns or throws as a first call.
FirstCallOutcome(m, o, source, sch, options) ==
    CASE o \in ParamsOps ->
            ParamsOutcome(m, o, ParamsObject(source), sch, options)
      [] o \in QueryOps -> QueryOutcome(m, o, source, sch, options)
      [] OTHER -> FormOutcome(m, o, source, sch, options)

\* What a caller sees of an outcome: everything but the step that failed.
Seen(r) == [r EXCEPT !.cause = "none"]

\* C30: no operation mutates its input source (params mapping,
\* search-params object, form object) and no state survives a call: after
\* any sequence of calls, a call returns the outcome it would return on its
\* inputs as the very first call.
C30_NoStateSurvivesACall ==
    /\ src.kind # "Request" => src = AsFirstGiven(src)
    /\ pc = "done" =>
          Seen(result) =
              Seen(FirstCallOutcome(mod, op, AsFirstGiven(src), schema, opts))

====
